---- MODULE Spec2Model ----
(***************************************************************************)
(* Model of func_adl_servicex/ServiceX.py: ServiceXDatasetSourceBase.       *)
(* A dispatcher instance holds a dataset handle (_ds) and the dry-run flag  *)
(* (_return_qastle).  execute_result_async runs synchronously up to its     *)
(* single await of the remote operation, so the body of a request is one    *)
(* atomic step; the remote's answer and the resumption of the coroutine     *)
(* are separate steps of the event loop.                                    *)
(***************************************************************************)
EXTENDS Integers, Sequences, FiniteSets, TLC

\* Number of request coroutines that may be outstanding on the dispatcher.
NumRequests == 2
\* Largest number of arguments a caller puts on the terminal node.
MaxArgs == 3

Requests == 1..NumRequests

None == "None"

\* What each remote operation of the ServiceXDataset yields.
RemoteData(name) ==
    CASE name = "get_data_rootfiles_async" -> "root files"
      [] name = "get_data_parquet_async" -> "parquet files"
      [] name = "get_data_pandas_df_async" -> "pandas DataFrame"
      [] name = "get_data_awkward_async" -> "awkward arrays"

\* Titles a caller may pass (title: Optional[str] = None).
Titles == {None, "my title"}

\* Terminal function names a caller may submit.  "ResultOther" stands for any
\* name that is not a key of _ds_map.
FuncNames == {"ResultTTree", "ResultParquet", "ResultPandasDF",
              "ResultAwkwardArray", "ResultOther"}

\* The argument counts a caller puts on a terminal node of each name: the
\* remote-native nodes carry the arguments their constructors take (stream,
\* columns, tree name, file name / stream, columns, file name); the locally
\* executed ones are tried with every count up to MaxArgs.
ArgCounts(f) ==
    CASE f = "ResultTTree" -> {4}
      [] f = "ResultParquet" -> {3}
      [] f = "ResultOther" -> {1}
      [] OTHER -> 1..MaxArgs

----------------------------------------------------------------------------
\* Class attributes

\* The table with the locally executed names sent to the operation of the
\* format they are rewritten to.
_ds_map_by_format ==
    [f \in {"ResultTTree", "ResultParquet", "ResultPandasDF", "ResultAwkwardArray"} |->
        CASE f = "ResultTTree" -> "get_data_rootfiles_async"
          [] f = "ResultParquet" -> "get_data_parquet_async"
          [] f = "ResultPandasDF" -> "get_data_parquet_async"
          [] f = "ResultAwkwardArray" -> "get_data_parquet_async"]

\* The table without the locally executed names.
_ds_map_remote_only ==
    [f \in {"ResultTTree", "ResultParquet"} |->
        CASE f = "ResultTTree" -> "get_data_rootfiles_async"
          [] f = "ResultParquet" -> "get_data_parquet_async"]

_ds_map ==
    [f \in {"ResultTTree", "ResultParquet", "ResultPandasDF", "ResultAwkwardArray"} |->
        CASE f = "ResultTTree" -> "get_data_rootfiles_async"
          [] f = "ResultParquet" -> "get_data_parquet_async"
          [] f = "ResultPandasDF" -> "get_data_pandas_df_async"
          [] f = "ResultAwkwardArray" -> "get_data_awkward_async"]

_format_map ==
    [d \in {"root", "parquet"} |->
        IF d = "root" THEN "get_data_rootfiles_async" ELSE "get_data_parquet_async"]

_execute_locally == {"ResultPandasDF", "ResultAwkwardArray"}

_format_list == <<"parquet", "root">>

----------------------------------------------------------------------------
\* AST nodes

\* ast.Str(s)
Str(s) == [node |-> "Str", v |-> s]

\* An argument subtree supplied by the caller; the i-th one is distinct from
\* every other, so position and identity can be told apart.
ArgNode(i) == [node |-> "Expr", v |-> ToString(i)]

\* ast.Call(func=ast.Name(id=f), args=args)
Call(f, args) == [func |-> f, args |-> args]

CallerArgs(n) == [i \in 1..n |-> ArgNode(i)]

\* qastle.python_ast_to_text_ast on a node: a string literal is quoted, any
\* other subtree is written by its own text.
NodeText(n) == IF n.node = "Str" THEN <<"'", n.v, "'">> ELSE <<n.v>>

RECURSIVE ArgsText(_)
ArgsText(args) ==
    IF args = <<>> THEN <<>>
    ELSE NodeText(Head(args)) \o ArgsText(Tail(args))

\* qastle.python_ast_to_text_ast on the terminal Call: (call <func> <args...>)
python_ast_to_text_ast(node) ==
    <<"(call", node.func>> \o ArgsText(node.args) \o <<")">>

----------------------------------------------------------------------------
\* Exceptions

NoExc == [type |-> None, msg |-> None]

NotSupportedExc == [type |-> "FuncADLServerException", msg |-> "is not supported by"]
WrongArgsExc == [type |-> "FuncADLServerException", msg |-> "wrong number of arguments"]
InternalErrorExc == [type |-> "FuncADLServerException", msg |-> "Internal error"]
AssertionExc == [type |-> "AssertionError", msg |-> "Unsupported ServiceX returned format"]
KeyErrorExc == [type |-> "KeyError", msg |-> None]
AssertFalseExc == [type |-> "AssertionError", msg |-> "Do not know how to call"]

----------------------------------------------------------------------------
\* State

VARIABLES
    _return_qastle,  \* self._return_qastle
    supported,       \* the transfer formats the backend behind self._ds delivers
    pc,              \* per request: "idle", "awaiting", "ready", "done"
    a,               \* per request: the ast.Call handed to execute_result_async
    title,           \* per request: the title argument while its frame is suspended
    stages,          \* per request: the pipeline steps executed, in order
    source,          \* per request: the node handed to python_ast_to_text_ast
    q_str,           \* per request: the local q_str (<<>> until assigned)
    calls,           \* per request: the remote operations invoked, in order
    future,          \* per request: what the awaited remote operation yielded
    exc,             \* per request: the exception raised to the caller
    result           \* per request: the value returned to the caller

vars == <<_return_qastle, supported, pc, a, title, stages, source, q_str, calls,
          future, exc, result>>

NoCall == Call(None, <<>>)
NoResult == [tag |-> None, text |-> <<>>, data |-> None]

----------------------------------------------------------------------------
\* Collaborator: ServiceXDataset.first_supported_datatype.  A single name is
\* treated as a one-element list; the first candidate the backend supports is
\* returned, None when there is none.
RECURSIVE first_supported_datatype(_, _)
first_supported_datatype(datatypes, sup) ==
    IF datatypes = <<>> THEN None
    ELSE IF Head(datatypes) \in sup THEN Head(datatypes)
    ELSE first_supported_datatype(Tail(datatypes), sup)

\* check_data_format_request with both branches asking for 'root'.
check_data_format_request_root_only(f_name, sup) ==
    IF \/ (f_name = "ResultTTree" /\ first_supported_datatype(<<"root">>, sup) = None)
       \/ (f_name = "ResultParquet"
             /\ first_supported_datatype(<<"root">>, sup) = None)
    THEN NotSupportedExc
    ELSE NoExc

\* check_data_format_request: the exception it raises, NoExc when it returns.
check_data_format_request(f_name, sup) ==
    IF \/ (f_name = "ResultTTree" /\ first_supported_datatype(<<"root">>, sup) = None)
       \/ (f_name = "ResultParquet"
             /\ first_supported_datatype(<<"parquet">>, sup) = None)
    THEN NotSupportedExc
    ELSE NoExc

\* The argument test written as len(a.args) < 2.
WrongArgCount_too_few(args) == Len(args) < 2

\* len(a.args) != 2
WrongArgCount(args) == Len(args) # 2

\* The replacement terminal nodes built by generate_qastle.
NewResultTTree(stream, col_names) ==
    Call("ResultTTree", <<stream, col_names, Str("treeme"), Str("junk.root")>>)

\* The ResultParquet node built with its first two arguments exchanged.
NewResultParquet_swapped(stream, col_names) ==
    Call("ResultParquet", <<col_names, stream, Str("junk.parquet")>>)

NewResultParquet(stream, col_names) ==
    Call("ResultParquet", <<stream, col_names, Str("junk.parquet")>>)

GenRaise(e) == [exc |-> e, source |-> NoCall, text |-> <<>>]
GenReturn(node) ==
    [exc |-> NoExc, source |-> node, text |-> python_ast_to_text_ast(node)]

\* generate_qastle: the exception raised, or the node serialized and its text.
\* debug is Python's __debug__: with it off the two assert statements are not
\* executed and the lookup _format_map[None] raises KeyError.
generate_qastle(ast, sup, debug) ==
    LET top_function == ast.func IN
    IF top_function \in _execute_locally
    THEN LET default_format == first_supported_datatype(<<"parquet", "root">>, sup) IN
         IF debug /\ default_format = None THEN GenRaise(AssertionExc)
         ELSE IF default_format \notin DOMAIN _format_map THEN GenRaise(KeyErrorExc)
         ELSE LET method_to_call == _format_map[default_format] IN
              IF WrongArgCount(ast.args) THEN GenRaise(WrongArgsExc)
              ELSE LET stream == ast.args[1]
                       col_names == ast.args[2]
                   IN
                   IF method_to_call = "get_data_rootfiles_async"
                   THEN GenReturn(NewResultTTree(stream, col_names))
                   ELSE IF method_to_call = "get_data_parquet_async"
                   THEN GenReturn(NewResultParquet(stream, col_names))
                   ELSE IF debug THEN GenRaise(AssertFalseExc)
                   ELSE GenReturn(ast)
    ELSE GenReturn(ast)

\* A getter that never reports the flag.
return_qastle_never == FALSE

\* The return_qastle property (getter).
return_qastle == _return_qastle

\* What the synchronous part of execute_result_async leaves behind.
Raised(st, src, q, e) ==
    [pc |-> "done", title |-> None, stages |-> st, source |-> src, q_str |-> q, calls |-> <<>>, exc |-> e,
     result |-> NoResult]

ReturnedQastle(st, src, q) ==
    [pc |-> "done", title |-> None, stages |-> st, source |-> src, q_str |-> q, calls |-> <<>>, exc |-> NoExc,
     result |-> [tag |-> "qastle", text |-> q, data |-> None]]

Awaiting(st, src, q, name, t) ==
    [pc |-> "awaiting", title |-> t, stages |-> st, source |-> src, q_str |-> q,
     calls |-> <<[op |-> name, q_str |-> q, title |-> t]>>, exc |-> NoExc,
     result |-> NoResult]

\* The dispatch without its membership test: the table lookup itself fails.
Dispatch_unguarded(st, src, f_name, q, t) ==
    IF f_name \notin DOMAIN _ds_map
    THEN Raised(st \o <<"_ds_map">>, src, q, KeyErrorExc)
    ELSE LET name == _ds_map[f_name] IN
         Awaiting(st \o <<"_ds_map", "await">>, src, q, name, t)

\* execute_result_async, from "Find the function we need to run against" to
\* the call of the remote operation.
Dispatch(st, src, f_name, q, t) ==
    IF f_name \notin DOMAIN _ds_map
    THEN Raised(st \o <<"_ds_map">>, src, q, InternalErrorExc)
    ELSE LET name == _ds_map[f_name] IN
         Awaiting(st \o <<"_ds_map", "await">>, src, q, name, t)

\* The body with the qastle generated before the format check.
RunBody_generate_first(ast, t, sup, flag, debug) ==
    LET a_func == ast.func
        g == generate_qastle(ast, sup, debug)
        chk == check_data_format_request(a_func, sup)
        st == <<"generate_qastle">>
    IN
    IF g.exc # NoExc
    THEN Raised(st, NoCall, <<>>, g.exc)
    ELSE LET q == g.text
             st2 == st \o <<"python_ast_to_text_ast", "check_data_format_request">>
         IN
         IF chk # NoExc
         THEN Raised(st2, g.source, q, chk)
         ELSE IF flag
         THEN ReturnedQastle(st2 \o <<"return_qastle">>, g.source, q)
         ELSE Dispatch(st2 \o <<"return_qastle">>, g.source, a_func, q, t)

\* execute_result_async up to its await: the coroutine runs without
\* suspension until then, or until it returns or raises.
RunBody(ast, t, sup, flag, debug) ==
    LET a_func == ast.func
        chk == check_data_format_request(a_func, sup)
    IN
    IF chk # NoExc
    THEN Raised(<<"check_data_format_request">>, NoCall, <<>>, chk)
    ELSE LET g == generate_qastle(ast, sup, debug)
             st == <<"check_data_format_request", "generate_qastle">>
         IN
         IF g.exc # NoExc
         THEN Raised(st, NoCall, <<>>, g.exc)
         ELSE LET q == g.text
                  st2 == st \o <<"python_ast_to_text_ast", "return_qastle">>
              IN
              IF flag
              THEN ReturnedQastle(st2, g.source, q)
              ELSE Dispatch(st2, g.source, a_func, q, t)

----------------------------------------------------------------------------
\* Actions

Init ==
    /\ _return_qastle = FALSE
    /\ supported \in SUBSET {"parquet", "root"}
    /\ pc = [r \in Requests |-> "idle"]
    /\ a = [r \in Requests |-> NoCall]
    /\ title = [r \in Requests |-> None]
    /\ stages = [r \in Requests |-> <<>>]
    /\ source = [r \in Requests |-> NoCall]
    /\ q_str = [r \in Requests |-> <<>>]
    /\ calls = [r \in Requests |-> <<>>]
    /\ future = [r \in Requests |-> None]
    /\ exc = [r \in Requests |-> NoExc]
    /\ result = [r \in Requests |-> NoResult]

\* The return_qastle property (setter).
set_return_qastle(value) ==
    /\ _return_qastle' = value
    /\ UNCHANGED <<supported, pc, a, title, stages, source, q_str, calls, future, exc, result>>

\* A caller starts execute_result_async(ast, title); the coroutine runs to its
\* await, its return or its raise.
execute_result_async(r) ==
    /\ pc[r] = "idle"
    /\ \E f \in FuncNames, t \in Titles, debug \in BOOLEAN : \E n \in ArgCounts(f) :
         LET ast == Call(f, CallerArgs(n))
             out == RunBody(ast, t, supported, return_qastle, debug)
         IN
         /\ a' = [a EXCEPT ![r] = ast]
         /\ title' = [title EXCEPT ![r] = out.title]
         /\ pc' = [pc EXCEPT ![r] = out.pc]
         /\ stages' = [stages EXCEPT ![r] = out.stages]
         /\ source' = [source EXCEPT ![r] = out.source]
         /\ q_str' = [q_str EXCEPT ![r] = out.q_str]
         /\ calls' = [calls EXCEPT ![r] = out.calls]
         /\ exc' = [exc EXCEPT ![r] = out.exc]
         /\ result' = [result EXCEPT ![r] = out.result]
    /\ UNCHANGED <<_return_qastle, supported, future>>

\* The remote operation awaited by request r yields its data.
RemoteYields(r) ==
    /\ pc[r] = "awaiting"
    /\ future' = [future EXCEPT ![r] = RemoteData(calls[r][1].op)]
    /\ pc' = [pc EXCEPT ![r] = "ready"]
    /\ UNCHANGED <<_return_qastle, supported, a, title, stages, source, q_str, calls, exc, result>>

\* A resumption that looks at the dry-run flag again.
Resume_rereads_flag(r) ==
    /\ pc[r] = "ready"
    /\ result' = [result EXCEPT ![r] =
                     IF return_qastle
                     THEN [tag |-> "qastle", text |-> q_str[r], data |-> None]
                     ELSE [tag |-> "data", text |-> <<>>, data |-> future[r]]]
    /\ pc' = [pc EXCEPT ![r] = "done"]
    /\ title' = [title EXCEPT ![r] = None]
    /\ UNCHANGED <<_return_qastle, supported, a, stages, source, q_str, calls, future, exc>>

\* The event loop resumes request r: "return await attr(q_str, title=title)".
Resume(r) ==
    /\ pc[r] = "ready"
    /\ result' = [result EXCEPT ![r] = [tag |-> "data", text |-> <<>>, data |-> future[r]]]
    /\ pc' = [pc EXCEPT ![r] = "done"]
    /\ title' = [title EXCEPT ![r] = None]
    /\ UNCHANGED <<_return_qastle, supported, a, stages, source, q_str, calls, future, exc>>

Next ==
    \/ \E value \in BOOLEAN : set_return_qastle(value)
    \/ \E r \in Requests : execute_result_async(r)
    \/ \E r \in Requests : RemoteYields(r)
    \/ \E r \in Requests : Resume(r)

Spec == Init /\ [][Next]_vars

----------------------------------------------------------------------------
\* Vocabulary of the properties

RemoteNative == {"ResultTTree", "ResultParquet"}
LocalMaterialized == {"ResultPandasDF", "ResultAwkwardArray"}
RequiredFormat(f) == IF f = "ResultTTree" THEN "root" ELSE "parquet"

Started(r) == pc[r] # "idle"

\* The request went past check_data_format_request.
PassedCheck(r) == Len(stages[r]) >= 2

\* The argument subtrees a caller put on a node with n arguments.
Submitted(n) == [i \in 1..n |-> [node |-> "Expr", v |-> ToString(i)]]

IsPlaceholder(n) == n.node = "Str"

----------------------------------------------------------------------------
\* C1: for ResultTTree (needs 'root') and ResultParquet (needs 'parquet'),
\* check_data_format_request passes exactly when the backend supports the needed
\* format, and otherwise the request ends there with the "is not supported by"
\* FuncADLServerException; ResultPandasDF and ResultAwkwardArray always pass it.
C1_CapabilityCheck ==
    \A r \in Requests : Started(r) =>
        LET f == a[r].func IN
        /\ f \in RemoteNative =>
             /\ PassedCheck(r) <=> RequiredFormat(f) \in supported
             /\ ~PassedCheck(r) =>
                  /\ exc[r] = NotSupportedExc
                  /\ stages[r] = <<"check_data_format_request">>
             /\ PassedCheck(r) => exc[r] # NotSupportedExc
        /\ f \in LocalMaterialized => PassedCheck(r) /\ exc[r] # NotSupportedExc

\* A ResultParquet request refused by a backend that delivers only 'root'.
C1_Witness ==
    \E r \in Requests :
        /\ a[r].func = "ResultParquet"
        /\ supported = {"root"}
        /\ exc[r] = NotSupportedExc

\* C2 (as claimed): a two-argument ResultPandasDF / ResultAwkwardArray request is
\* rewritten to ResultParquet when the backend supports parquet, to ResultTTree
\* when it supports only root, and fails with the "is not supported by"
\* FuncADLServerException, without wire text, when it supports neither.
C2_FormatPreference ==
    \A r \in Requests : (Started(r) /\ a[r].func \in LocalMaterialized /\ Len(a[r].args) = 2) =>
        /\ "parquet" \in supported =>
             exc[r] = NoExc /\ source[r].func = "ResultParquet"
        /\ supported = {"root"} =>
             exc[r] = NoExc /\ source[r].func = "ResultTTree"
        /\ supported = {} =>
             exc[r] = NotSupportedExc /\ q_str[r] = <<>>

\* C3: a rewritten terminal node starts with the original first two arguments,
\* in order, followed only by placeholders (two for ResultTTree, one for
\* ResultParquet); the node of any other request is serialized as submitted.
C3_ArgumentPreserving ==
    \A r \in Requests : (Started(r) /\ exc[r] = NoExc) =>
        LET f == a[r].func
            n == Len(a[r].args)
            new == source[r]
        IN
        /\ a[r].args = Submitted(n)
        /\ f \in LocalMaterialized =>
             /\ new.func \in RemoteNative
             /\ Len(new.args) = (IF new.func = "ResultTTree" THEN 4 ELSE 3)
             /\ new.args[1] = a[r].args[1]
             /\ new.args[2] = a[r].args[2]
             /\ a[r].args[1] # a[r].args[2]
             /\ \A i \in 3..Len(new.args) : IsPlaceholder(new.args[i])
        /\ f \notin LocalMaterialized =>
             /\ new.func = f
             /\ new.args = Submitted(n)

\* A ResultAwkwardArray request rewritten to a ResultParquet node.
C3_Witness ==
    \E r \in Requests :
        /\ a[r].func = "ResultAwkwardArray"
        /\ exc[r] = NoExc
        /\ source[r].func = "ResultParquet"
        /\ Len(source[r].args) = 3

\* C4 (as claimed): every ResultPandasDF / ResultAwkwardArray request whose
\* terminal node has an argument count other than two fails with the "wrong
\* number of arguments" FuncADLServerException, is not rewritten, returns no wire
\* text and invokes no remote operation.
C4_ArityErrorAlways ==
    \A r \in Requests :
        (Started(r) /\ a[r].func \in LocalMaterialized /\ Len(a[r].args) # 2) =>
            /\ exc[r] = WrongArgsExc
            /\ source[r] = NoCall
            /\ q_str[r] = <<>>
            /\ calls[r] = <<>>
            /\ result[r] = NoResult

\* C4 (amended): such a request is never rewritten, returns no wire text and
\* invokes no remote operation; it fails with the "wrong number of arguments"
\* FuncADLServerException whenever the backend supports parquet or root, and at
\* the format selection, which runs first, when it supports neither.
C4_ArityError ==
    \A r \in Requests :
        (Started(r) /\ a[r].func \in LocalMaterialized /\ Len(a[r].args) # 2) =>
            /\ pc[r] = "done"
            /\ exc[r] # NoExc
            /\ source[r] = NoCall
            /\ q_str[r] = <<>>
            /\ calls[r] = <<>>
            /\ result[r] = NoResult
            /\ supported # {} => exc[r] = WrongArgsExc
            /\ supported = {} => exc[r] \in {AssertionExc, KeyErrorExc}

\* A three-argument ResultPandasDF request refused for its argument count.
C4_Witness ==
    \E r \in Requests :
        /\ a[r].func = "ResultPandasDF"
        /\ Len(a[r].args) = 3
        /\ exc[r] = WrongArgsExc

----------------------------------------------------------------------------
\* Expectations of the end-to-end properties, written out name by name

\* The texts of n submitted argument subtrees.
SubmittedText(n) == [i \in 1..n |-> ToString(i)]

\* The wire text of the request (f, n arguments) on a backend supporting sup.
ExpectedWire(f, n, sup) ==
    IF f \in LocalMaterialized
    THEN IF "parquet" \in sup
         THEN <<"(call", "ResultParquet", "1", "2", "'", "junk.parquet", "'", ")">>
         ELSE <<"(call", "ResultTTree", "1", "2", "'", "treeme", "'",
                "'", "junk.root", "'", ")">>
    ELSE <<"(call", f>> \o SubmittedText(n) \o <<")">>

\* The remote operation of each submitted name, and what it yields.
ExpectedOp(f) ==
    CASE f = "ResultTTree" -> "get_data_rootfiles_async"
      [] f = "ResultParquet" -> "get_data_parquet_async"
      [] f = "ResultPandasDF" -> "get_data_pandas_df_async"
      [] f = "ResultAwkwardArray" -> "get_data_awkward_async"
      [] OTHER -> None

ExpectedData(f) ==
    CASE f = "ResultTTree" -> "root files"
      [] f = "ResultParquet" -> "parquet files"
      [] f = "ResultPandasDF" -> "pandas DataFrame"
      [] f = "ResultAwkwardArray" -> "awkward arrays"
      [] OTHER -> None

\* Request r starts in this step.
Starts(r) == pc[r] = "idle" /\ pc'[r] # "idle"

\* The request reached the lookup in _ds_map, which only a request that read
\* the dry-run flag as false does.
ReachedDispatch(r) == \E i \in 1..Len(stages[r]) : stages[r][i] = "_ds_map"

PipelineOrder ==
    <<"check_data_format_request", "generate_qastle", "python_ast_to_text_ast",
      "return_qastle", "_ds_map", "await">>

IsPrefix(s, t) == Len(s) <= Len(t) /\ s = SubSeq(t, 1, Len(s))

----------------------------------------------------------------------------
\* C5: a request started while the dry-run flag is true invokes no remote
\* operation, then or later, and if it passes the format check and the rewriter
\* it returns the wire text of the (rewritten, for the locally executed names)
\* terminal node.
C5_DryRun ==
    /\ [][\A r \in Requests : (Starts(r) /\ _return_qastle) =>
            /\ pc'[r] = "done"
            /\ calls'[r] = <<>>
            /\ exc'[r] = NoExc =>
                 /\ result'[r].tag = "qastle"
                 /\ result'[r].text =
                      ExpectedWire(a'[r].func, Len(a'[r].args), supported)
                 /\ result'[r].text = python_ast_to_text_ast(source'[r])]_vars
    /\ [](\A r \in Requests : result[r].tag = "qastle" => calls[r] = <<>>)

\* Scenario A: ResultPandasDF on a backend delivering only parquet returns wire
\* text naming ResultParquet.
C5_Witness ==
    \E r \in Requests :
        /\ a[r].func = "ResultPandasDF"
        /\ supported = {"parquet"}
        /\ result[r].tag = "qastle"
        /\ result[r].text[2] = "ResultParquet"
        /\ calls[r] = <<>>

\* C6: a request that reads the dry-run flag as false and is not refused
\* invokes exactly one remote operation, once: the one _ds_map gives for the
\* submitted name, with the wire text of the (rewritten) node and the caller's
\* title; it returns what that operation yields.
C6_SingleInvocation ==
    \A r \in Requests : (ReachedDispatch(r) /\ exc[r] = NoExc) =>
        LET f == a[r].func IN
        /\ Len(calls[r]) = 1
        /\ calls[r][1].op = ExpectedOp(f)
        /\ calls[r][1].q_str = ExpectedWire(f, Len(a[r].args), supported)
        /\ calls[r][1].q_str = q_str[r]
        /\ calls[r][1].title \in Titles
        /\ pc[r] \in {"awaiting", "ready"} => calls[r][1].title = title[r]
        /\ pc[r] = "awaiting" => result[r] = NoResult /\ future[r] = None
        /\ pc[r] = "ready" => result[r] = NoResult /\ future[r] = ExpectedData(f)
        /\ pc[r] = "done" =>
             result[r] = [tag |-> "data", text |-> <<>>, data |-> ExpectedData(f)]

\* Scenario C, and its locally executed counterpart: a ResultParquet request and a
\* ResultPandasDF request, each completed with the data of its own operation.
C6_Witness ==
    \E r1, r2 \in Requests :
        /\ a[r1].func = "ResultParquet" /\ pc[r1] = "done"
        /\ result[r1].data = "parquet files"
        /\ a[r2].func = "ResultPandasDF" /\ pc[r2] = "done"
        /\ result[r2].data = "pandas DataFrame"
        /\ calls[r2][1].title = "my title"

\* C7: the steps of a request run in the order check_data_format_request,
\* generate_qastle, python_ast_to_text_ast, return_qastle test, _ds_map lookup,
\* remote call, and stop at the first failure: a request that raised has invoked
\* no remote operation, a remote operation is invoked only after every earlier
\* step, and a ResultTTree / ResultParquet request refused by the format check
\* has neither been rewritten nor serialized.
C7_StageOrder ==
    \A r \in Requests :
        /\ IsPrefix(stages[r], PipelineOrder)
        /\ Started(r) => stages[r] # <<>>
        /\ exc[r] # NoExc => calls[r] = <<>> /\ pc[r] = "done" /\ result[r] = NoResult
        /\ calls[r] # <<>> => stages[r] = PipelineOrder
        /\ (a[r].func \in RemoteNative /\ exc[r] = NotSupportedExc) =>
             /\ stages[r] = <<"check_data_format_request">>
             /\ source[r] = NoCall
             /\ q_str[r] = <<>>

\* Scenario B beside a request that went through every step: ResultTTree refused
\* on a backend without root, ResultParquet invoked on the same backend.
C7_Witness ==
    \E r1, r2 \in Requests :
        /\ a[r1].func = "ResultTTree" /\ exc[r1] = NotSupportedExc
        /\ stages[r1] = <<"check_data_format_request">>
        /\ a[r2].func = "ResultParquet" /\ stages[r2] = PipelineOrder

\* C8 (as claimed): every request whose name is not a key of _ds_map ends in
\* the "Internal error" FuncADLServerException, never with wire text or data,
\* and invokes no remote operation.
C8_InternalErrorAlways ==
    \A r \in Requests : (Started(r) /\ a[r].func \notin DOMAIN _ds_map) =>
        /\ pc[r] = "done"
        /\ exc[r] = InternalErrorExc
        /\ result[r] = NoResult
        /\ calls[r] = <<>>

\* C8 (amended): a request whose name is not a key of _ds_map invokes no
\* remote operation; started while the dry-run flag is false it ends in the
\* "Internal error" FuncADLServerException and returns nothing; started while
\* the flag is true it returns its wire text, the flag being tested first.
C8_InternalError ==
    [][\A r \in Requests :
          (Starts(r) /\ a'[r].func \notin {"ResultTTree", "ResultParquet",
                                           "ResultPandasDF", "ResultAwkwardArray"}) =>
            /\ pc'[r] = "done"
            /\ calls'[r] = <<>>
            /\ ~_return_qastle => exc'[r] = InternalErrorExc /\ result'[r] = NoResult
            /\ _return_qastle => exc'[r] = NoExc /\ result'[r].tag = "qastle"]_vars

\* A ResultOther request refused at the lookup.
C8_Witness ==
    \E r \in Requests :
        /\ a[r].func = "ResultOther"
        /\ exc[r] = InternalErrorExc
        /\ stages[r] = SubSeq(PipelineOrder, 1, 5)

\* C9 (as claimed): when the lookup is reached, _ds_map holds ResultTTree and
\* ResultParquet and none of the locally executed names, and the request being
\* dispatched is not one of the locally executed names.
C9_TableDisjointFromLocal ==
    \A r \in Requests : ReachedDispatch(r) =>
        /\ RemoteNative \subseteq DOMAIN _ds_map
        /\ DOMAIN _ds_map \cap _execute_locally = {}
        /\ calls[r] # <<>> => a[r].func \notin _execute_locally

\* C9 (amended): _ds_map holds ResultTTree and ResultParquet and also every
\* locally executed name; a ResultPandasDF / ResultAwkwardArray request that
\* reaches the lookup is dispatched through its own entry
\* (get_data_pandas_df_async / get_data_awkward_async), with the wire text of
\* the node it was rewritten to.
C9_TableHoldsLocal ==
    \A r \in Requests : ReachedDispatch(r) =>
        /\ RemoteNative \subseteq DOMAIN _ds_map
        /\ LocalMaterialized \subseteq DOMAIN _ds_map
        /\ _execute_locally \subseteq DOMAIN _ds_map
        /\ a[r].func \in LocalMaterialized =>
             /\ exc[r] = NoExc
             /\ Len(calls[r]) = 1
             /\ calls[r][1].op =
                  (IF a[r].func = "ResultPandasDF"
                   THEN "get_data_pandas_df_async" ELSE "get_data_awkward_async")
             /\ calls[r][1].q_str[2] \in RemoteNative

\* A ResultAwkwardArray request dispatched to get_data_awkward_async with wire
\* text naming ResultTTree.
C9_Witness ==
    \E r \in Requests :
        /\ a[r].func = "ResultAwkwardArray"
        /\ calls[r] # <<>>
        /\ calls[r][1].op = "get_data_awkward_async"
        /\ calls[r][1].q_str[2] = "ResultTTree"

\* C10: whatever else runs meanwhile, a request is settled by the step that runs
\* its body: the flag at that step alone decides between wire text and
\* invocation; from then on its wire text and its one remote call never change,
\* a suspended request moves only to the yielded data and then to returning
\* exactly that data, and a finished request never changes again.
C10_FixedBeforeSuspension ==
    [][\A r \in Requests :
          /\ Starts(r) =>
               /\ _return_qastle => pc'[r] = "done" /\ calls'[r] = <<>>
               /\ (~_return_qastle /\ exc'[r] = NoExc) =>
                    /\ pc'[r] = "awaiting"
                    /\ Len(calls'[r]) = 1
                    /\ calls'[r][1].q_str = q_str'[r]
                    /\ q_str'[r] = ExpectedWire(a'[r].func, Len(a'[r].args), supported)
          /\ Started(r) =>
               /\ a'[r] = a[r] /\ stages'[r] = stages[r] /\ source'[r] = source[r]
               /\ q_str'[r] = q_str[r] /\ calls'[r] = calls[r] /\ exc'[r] = exc[r]
          /\ pc[r] = "awaiting" =>
               /\ pc'[r] \in {"awaiting", "ready"}
               /\ result'[r] = NoResult
          /\ pc[r] = "ready" =>
               /\ pc'[r] \in {"ready", "done"}
               /\ future'[r] = future[r]
               /\ pc'[r] = "ready" => result'[r] = NoResult
               /\ pc'[r] = "done" =>
                    result'[r] = [tag |-> "data", text |-> <<>>, data |-> future[r]]
          /\ pc[r] = "done" =>
               pc'[r] = "done" /\ result'[r] = result[r] /\ future'[r] = future[r]]_vars

\* A request suspended while the flag was false has returned its data although
\* the flag was set afterwards and another request returned wire text meanwhile.
C10_Witness ==
    \E r1, r2 \in Requests :
        /\ r1 # r2
        /\ pc[r1] = "done" /\ result[r1].tag = "data"
        /\ result[r2].tag = "qastle"
        /\ _return_qastle

====
